---------------------------- MODULE Spec2Model ----------------------------
(***************************************************************************)
(* Model of shelly.py: the persistent shell (PersistentShell), the         *)
(* authorization gate (Shelly._is_greenlisted), the tool dispatcher        *)
(* (Shelly._execute_tool).                                                 *)
(*                                                                         *)
(* Text is modelled as a sequence of one-symbol strings, so that           *)
(* strip, split, startswith and the substring test are computed the way    *)
(* Python computes them.                                                   *)
(***************************************************************************)
EXTENDS Integers, Sequences, FiniteSets, TLC

(***************************************************************************)
(* Bounds of the model                                                     *)
(***************************************************************************)
\* longest command string given to the gate
MaxCmdLen == 4
\* processes spawned in one run (the first one and the respawns)
MaxSpawns == 2
\* last reading of the clock
MaxClock == 6
\* run_command calls in one run
MaxSubmits == 2
\* longest text handed to _truncate_output
MaxTextLen == 6
\* largest max_lines
MaxLineCeiling == 4
\* largest max_characters
MaxCharCeiling == 60

\* the longest text the marker check is tried on, in symbols
MaxPartLen == 4

(***************************************************************************)
(* Python string helpers                                                   *)
(***************************************************************************)
\* characters str.strip() and str.split() treat as whitespace
Whitespace == {" ", "\n"}

\* s[i:] for 1-based i
DropFirst(s, n) == SubSeq(s, n + 1, Len(s))

\* str.lstrip()
RECURSIVE lstrip(_)
lstrip(s) ==
    IF s # <<>> /\ Head(s) \in Whitespace THEN lstrip(Tail(s)) ELSE s

\* str.rstrip()
RECURSIVE rstrip(_)
rstrip(s) ==
    IF s # <<>> /\ s[Len(s)] \in Whitespace
    THEN rstrip(SubSeq(s, 1, Len(s) - 1))
    ELSE s

\* str.strip()
strip(s) == rstrip(lstrip(s))

\* str.startswith(prefix)
startswith(s, prefix) ==
    /\ Len(prefix) <= Len(s)
    /\ SubSeq(s, 1, Len(prefix)) = prefix

\* the Python test `sub in s`
Contains(s, sub) ==
    \E i \in 0..(Len(s) - Len(sub)) : SubSeq(s, i + 1, i + Len(sub)) = sub

\* the first whitespace-delimited word of a string without leading whitespace
RECURSIVE FirstWord(_)
FirstWord(s) ==
    IF s = <<>> \/ Head(s) \in Whitespace
    THEN <<>>
    ELSE <<Head(s)>> \o FirstWord(Tail(s))

\* str.split() with no argument: the whitespace-delimited words
RECURSIVE split(_)
split(s) ==
    LET t == lstrip(s) IN
    IF t = <<>> THEN <<>>
    ELSE LET w == FirstWord(t) IN <<w>> \o split(DropFirst(t, Len(w)))

\* the position of the first occurrence of the symbol in the text, 0 if none
IndexOf(text, sym) ==
    IF \E i \in 1..Len(text) : text[i] = sym
    THEN CHOOSE i \in 1..Len(text) :
             text[i] = sym /\ \A j \in 1..(i - 1) : text[j] # sym
    ELSE 0

\* text.split(sym)[0]: what precedes the first occurrence (all of it if none)
SplitFirst(text, sym) ==
    IF IndexOf(text, sym) = 0 THEN text
    ELSE SubSeq(text, 1, IndexOf(text, sym) - 1)

\* text.split(sym)[1]: what lies between the first and the second occurrence
SplitSecond(text, sym) ==
    SplitFirst(DropFirst(text, IndexOf(text, sym)), sym)

(***************************************************************************)
(* Configuration (config.json, read into CONFIG)                           *)
(***************************************************************************)
\* CONFIG['greenlist_commands']: a single-word entry in the default list,
\* a multi-word entry in the linux list (like "git status"), a second
\* single-word entry in the windows_cmd list, and in the macos list a
\* multi-word entry whose first word is not an entry by itself
greenlist_commands(key) ==
    CASE key = "default"     -> << <<"a">> >>
      [] key = "linux"       -> << <<"a", " ", "f">> >>
      [] key = "windows_cmd" -> << <<"f">>, <<"a">> >>
      [] key = "macos"       -> << <<"f", " ", "a">> >>
      [] OTHER               -> << >>

(***************************************************************************)
(* Shelly._is_greenlisted                                                  *)
(***************************************************************************)
\* the backquote character (the lexer of TLA+ does not accept it in a string)
Backquote == "backquote"

shell_operators ==
    << <<";">>, <<"&", "&">>, <<"|", "|">>, <<"|">>, <<">">>, <<"<">>,
       <<"&">>, <<"$", "(">>, <<Backquote>> >>

\* variant: the last operator of the list (the backquote) is not looked for
AnyOperatorIn_SkipsLast(text) ==
    \E k \in 1..(Len(shell_operators) - 1) : Contains(text, shell_operators[k])

\* any(op in text for op in shell_operators)
AnyOperatorIn(text) ==
    \E k \in 1..Len(shell_operators) : Contains(text, shell_operators[k])

\* the key for the greenlist lookup
GreenlistKey(shell_type, current_os) ==
    IF shell_type = "powershell" THEN "windows_powershell"
    ELSE IF shell_type = "cmd" THEN "windows_cmd"
    ELSE IF current_os = "Linux" THEN "linux"
    ELSE IF current_os = "Darwin" THEN "macos"
    ELSE "default"

\* variant: the default list is not appended
EffectiveGreenlist_OwnOnly(key) == greenlist_commands(key)

\* the list of the key, extended with the entries of the default list that it
\* does not have yet
EffectiveGreenlist(key) ==
    LET own == greenlist_commands(key)
        dflt == greenlist_commands("default")
        missing == SelectSeq(dflt, LAMBDA item :
                       \A k \in 1..Len(own) : own[k] # item)
    IN  IF key # "default" THEN own \o missing ELSE own

\* variant: an entry also refuses a remainder that holds the flag -f
GreenItemMatches_FlagCheck(cmd, green_item) ==
    LET full == strip(cmd)
        command_parts == split(full)
        base_command == IF command_parts # <<>> THEN command_parts[1] ELSE <<>>
        rest == IF Contains(green_item, <<" ">>)
                THEN strip(DropFirst(full, Len(green_item)))
                ELSE strip(DropFirst(full, Len(base_command)))
    IN  /\ IF Contains(green_item, <<" ">>)
           THEN startswith(full, green_item)
           ELSE base_command = green_item
        /\ ~AnyOperatorIn(rest)
        /\ ~Contains(rest, <<"-", "f">>)

\* one iteration of the loop over the greenlist: does green_item make the
\* command safe
GreenItemMatches(cmd, green_item) ==
    LET full_command_for_operator_check == strip(cmd)
        command_parts == split(strip(cmd))
        base_command == IF command_parts # <<>> THEN command_parts[1] ELSE <<>>
    IN  IF Contains(green_item, <<" ">>)
        THEN /\ startswith(full_command_for_operator_check, green_item)
             /\ ~AnyOperatorIn(strip(DropFirst(full_command_for_operator_check,
                                               Len(green_item))))
        ELSE /\ base_command = green_item
             /\ ~AnyOperatorIn(strip(DropFirst(strip(cmd),
                                               Len(base_command))))

\* variant: the global validation flag is not consulted
is_greenlisted_IgnoresFlag(cmd, validate_all, sh_type, os) ==
    LET greenlist == EffectiveGreenlist(GreenlistKey(sh_type, os))
    IN  \E k \in 1..Len(greenlist) : GreenItemMatches(cmd, greenlist[k])

is_greenlisted(cmd, validate_all, sh_type, os) ==
    IF validate_all THEN FALSE
    ELSE LET greenlist == EffectiveGreenlist(GreenlistKey(sh_type, os))
         IN  \E k \in 1..Len(greenlist) : GreenItemMatches(cmd, greenlist[k])

(***************************************************************************)
(* State                                                                   *)
(***************************************************************************)
VARIABLES
    validate_all_commands,  \* CONFIG['validate_all_commands']
    shell_type,             \* PersistentShell.shell_type
    current_os,             \* platform.system()
    command,                \* the command string handed to the gate
    gate_ret,               \* <<>> before _is_greenlisted returns, then <<result>>
    process,                \* self.process: 0 for None, else the pid
    procs,                  \* the processes spawned so far, indexed by pid
    threads,                \* the reader threads started so far
    output_queue,           \* self.output_queue: the lines read from stdout
    error_queue,            \* self.error_queue: the lines read from stderr
    clock,                  \* time.time(), in ticks of half a grace window    
    pc,                     \* where the caller thread is
    ss_ret,                 \* where _start_shell returns to
    wake,                   \* when the caller's current sleep or wait ends
    rc,                     \* the locals of run_command
    co,                     \* the locals of _collect_output
    result,                 \* <<>>, or the tuple run_command has just returned
    submits,                \* run_command calls made so far
    tool,                   \* the locals of _execute_tool
    tool_ret,               \* <<>>, or <<the dict _execute_tool returned last>>
    current_dir,            \* Shelly.current_dir
    events,                 \* history: the spawns and writes of the current call
    deaths,                 \* history: processes lost since the last good write
    ran,                    \* history: the command a shell started last
    timed_out,              \* history: a run_command returned without its marker
    calls,                  \* history: the run_command calls made so far
    output,                 \* the text handed to _truncate_output
    max_lines,              \* CONFIG['output_truncation']['max_lines']
    max_chars,              \* CONFIG['output_truncation']['max_characters']
    truncated,              \* what the calls of _truncate_output returned so far
    reason,                 \* history: <<>>, or <<the answer to "Why not?">> of this call
    shell_path,             \* the shell_path argument of PersistentShell(), <<>> for None
    environ,                \* os.environ: the variables that are set
    installed,              \* the executables that can be run
    shell_executable        \* PersistentShell.shell_executable

gateVars == <<validate_all_commands, shell_type, current_os, command, gate_ret>>

platformVars == <<validate_all_commands, shell_type, current_os>>

shellVars == <<process, procs, threads, output_queue, error_queue, clock, pc,
               ss_ret, wake, rc, co, result, submits, tool, tool_ret,
               current_dir, events, deaths, ran, timed_out, calls>>

limiterVars == <<output, max_lines, max_chars, truncated>>

promptVars == <<reason>>

selectVars == <<shell_path, environ, installed, shell_executable>>

vars == <<gateVars, shellVars, limiterVars, promptVars, selectVars>>

(***************************************************************************)
(* PersistentShell: time, processes and text on the pipes                  *)
(***************************************************************************)
\* the grace window of _collect_output, in ticks of the clock (0.1 s)
Grace == 2
\* the warm-up sleep of _start_shell, in ticks (0.5 s, scaled down)
Warmup == 1
\* the ceiling of run_command, in ticks (30 s, scaled down)
timeout == 3
\* the wait of close() for the process to exit, in ticks (2 s, scaled down)
CloseWait == 1

\* variant: the marker is made without the clock reading
Marker_Fixed(t) == "SHELLY_MARKER_" \o ToString(0)

\* f"SHELLY_MARKER_{time.time()}": one symbol per clock reading
Marker(t) == "SHELLY_MARKER_" \o ToString(t)

MarkerSyms == {Marker(t) : t \in 0..(MaxClock + 1)}

\* the text after the command in full_command
Suffix(sh_type, mk) ==
    IF sh_type = "cmd"
    THEN <<"\n", "echo", " ", mk, " ", "%ERRORLEVEL%", "\n">>
    ELSE IF sh_type = "powershell"
    THEN <<";", " ", "$LastExitCodeFromCmd", " ", "=", " ", "$LASTEXITCODE",
           ";", " ", "echo", " ", "\"", mk, " ", "$LastExitCodeFromCmd", "\"",
           "\n">>
    ELSE <<"\n", "echo", " ", mk, " ", "$?", "\n">>

\* full_command of run_command
FullCommand(sh_type, cmd, mk) == cmd \o Suffix(sh_type, mk)

\* what close() writes
ExitText == <<"exit", "\n">>

\* the decimal digits
DigitSyms == {ToString(n) : n \in 0..9}

DigitVal(sym) == CHOOSE n \in 0..9 : sym = ToString(n)

\* the number a run of digits denotes, leading zeros included
RECURSIVE NatOf(_)
NatOf(digits) ==
    IF digits = <<>>
    THEN 0
    ELSE 10 * NatOf(SubSeq(digits, 1, Len(digits) - 1))
         + DigitVal(digits[Len(digits)])

\* a text without its leading sign, if it has one
Unsigned(text) ==
    IF text # <<>> /\ text[1] \in {"-", "+"} THEN Tail(text) ELSE text

\* int(code_str) of a stripped text: it denotes an integer when it is a run
\* of one or more digits after an optional sign; anything else raises
\* ValueError
IsInt(text) ==
    /\ Unsigned(text) # <<>>
    /\ \A i \in 1..Len(Unsigned(text)) : Unsigned(text)[i] \in DigitSyms

IntOf(text) ==
    IF text[1] = "-" THEN 0 - NatOf(Unsigned(text)) ELSE NatOf(Unsigned(text))

\* parts[1].strip().split('\n')[0].strip(), and for powershell without the
\* surrounding quotes
CodeStr(sh_type, stdout_part, mk) ==
    LET marker_line == SplitFirst(strip(SplitSecond(stdout_part, mk)), "\n")
        code_str == strip(marker_line)
    IN  IF /\ sh_type = "powershell"
           /\ Len(code_str) >= 1
           /\ code_str[1] = "\""
           /\ code_str[Len(code_str)] = "\""
        THEN strip(SubSeq(code_str, 2, Len(code_str) - 1))
        ELSE code_str

\* variant: a field that is not an integer reads as 0
ParsedCode_FallbackZero(sh_type, stdout_part, mk) ==
    LET code_str == CodeStr(sh_type, stdout_part, mk)
    IN  IF IsInt(code_str) THEN IntOf(code_str) ELSE 0

\* the return code read after the marker: 1 when it is not an integer
ParsedCode(sh_type, stdout_part, mk) ==
    LET code_str == CodeStr(sh_type, stdout_part, mk)
    IN  IF IsInt(code_str) THEN IntOf(code_str) ELSE 1

\* ''.join(lines): the lines of a queue as one text
RECURSIVE Join(_)
Join(lines) == IF lines = <<>> THEN <<>> ELSE Head(lines) \o Join(Tail(lines))

(***************************************************************************)
(* PersistentShell.__init__: the executable and the dialect                *)
(***************************************************************************)
\* str.lower(), on the capital letters of the model
Lower(sym) ==
    CASE sym = "Y" -> "y"
      [] sym = "E" -> "e"
      [] sym = "S" -> "s"
      [] sym = "P" -> "p"
      [] OTHER -> sym

lower(text) == [i \in 1..Len(text) |-> Lower(text[i])]

\* paths and names of executables, one character per element
BinBash == <<"/", "b", "i", "n", "/", "b", "a", "s", "h">>

BinZsh == <<"/", "b", "i", "n", "/", "z", "s", "h">>

BinFish == <<"/", "b", "i", "n", "/", "f", "i", "s", "h">>

BinPwsh == <<"/", "b", "i", "n", "/", "p", "w", "s", "h">>

PowershellExe ==
    <<"p", "o", "w", "e", "r", "s", "h", "e", "l", "l", ".", "e", "x", "e">>

PowershellMixed ==
    <<"P", "o", "w", "e", "r", "S", "h", "e", "l", "l", ".", "e", "x", "e">>

CmdExe == <<"c", "m", "d", ".", "e", "x", "e">>

BashExe == <<"b", "a", "s", "h", ".", "e", "x", "e">>

\* os.environ.get(name, default)
EnvGet(env, name, default) ==
    IF name \in DOMAIN env THEN env[name] ELSE default

\* os.path.basename(path) on a posix system: what follows the last slash
RECURSIVE basename(_)
basename(path) ==
    IF Contains(path, <<"/">>)
    THEN basename(DropFirst(path, IndexOf(path, "/")))
    ELSE path

\* lines 70-82: the dialect inferred from the name of the executable
ShellTypeOf(executable_name) ==
    IF \/ Contains(lower(executable_name), <<"p", "o", "w", "e", "r", "s", "h", "e", "l", "l">>)
       \/ Contains(lower(executable_name), <<"p", "w", "s", "h">>)
    THEN "powershell"
    ELSE IF Contains(lower(executable_name), <<"c", "m", "d">>) THEN "cmd"
    ELSE IF Contains(executable_name, <<"b", "a", "s", "h">>) THEN "bash"
    ELSE IF Contains(executable_name, <<"z", "s", "h">>) THEN "zsh"
    ELSE IF Contains(executable_name, <<"s", "h">>) THEN "sh"
    ELSE "bash"

\* lines 49-82: <<shell_executable, shell_type>> for the platform os, the
\* argument path, the environment env and the executables inst that can be
\* run; the probe of line 59 succeeds when powershell.exe can be run
Selection(os, path, env, inst) ==
    IF os = "Windows"
    THEN IF path # <<>> /\ Contains(lower(path), <<"p", "o", "w", "e", "r", "s", "h", "e", "l", "l">>)
         THEN <<PowershellExe, "powershell">>
         ELSE IF path # <<>> /\ Contains(lower(path), <<"c", "m", "d">>)
         THEN <<CmdExe, "cmd">>
         ELSE IF PowershellExe \in inst
         THEN <<PowershellExe, "powershell">>
         ELSE <<EnvGet(env, "COMSPEC", CmdExe), "cmd">>
    ELSE LET exe == IF path # <<>> THEN path
                    ELSE EnvGet(env, "SHELL", BinBash)
         IN  <<exe, ShellTypeOf(basename(exe))>>

\* lines 297-301: the shell_path Shelly hands to PersistentShell
ShellyShellPath(os, env) ==
    IF os = "Windows"
    THEN EnvGet(env, "COMSPEC", CmdExe)
    ELSE EnvGet(env, "SHELL", BinBash)

\* the directory the program is started in
StartDir == "home"

\* variant: the interactive flag is passed to every shell
cmd_list_AlwaysInteractive(exe, sh_type, os) == <<exe, <<"-", "i">> >>

\* lines 88-90: cmd_list of _start_shell
cmd_list(exe, sh_type, os) ==
    IF sh_type \notin {"powershell", "cmd"} /\ os # "Windows"
    THEN <<exe, <<"-", "i">> >>
    ELSE <<exe>>

\* nothing is known of the executables: PersistentShell is not constructed
SelectionUnused ==
    /\ shell_path = <<>>
    /\ environ = <<>>
    /\ installed = {}
    /\ shell_executable = <<>>

\* Shelly() on Linux with SHELL=/bin/bash
SelectedBash ==
    /\ environ = [SHELL |-> BinBash]
    /\ installed = {BinBash}
    /\ shell_path = ShellyShellPath("Linux", environ)
    /\ shell_executable = Selection("Linux", shell_path, environ, installed)[1]

\* a process as Popen returns it: alive, nothing written, nothing to read,
\* started with cmd_list
NewProc == [alive |-> TRUE, stdin |-> <<>>, running |-> <<>>,
            out |-> <<>>, err |-> <<>>, cwd |-> StartDir,
            argv |-> cmd_list(shell_executable, shell_type, current_os)]

\* a reader thread as _start_shell starts it: in readline on a stream of the
\* process just spawned
NewThread(stream, pid) ==
    [stream |-> stream, st |-> "read", pid |-> pid, line |-> <<>>]

\* the commands of the model
CmdFalse == <<"false">>
CmdEchoHello == <<"echo", " ", "hello">>
CmdA == <<"a">>
CmdCd == <<"cd", " ", "tmp">>

\* the command that prints the working directory
PwdCmd(sh_type) ==
    IF sh_type = "cmd" THEN <<"cd">>
    ELSE IF sh_type = "powershell"
    THEN <<"echo", " ", "(Get-Location).Path">>
    ELSE <<"pwd">>

\* what the shell does with a command: the text it writes to stdout and to
\* stderr, the exit status, the directory it leaves the shell in, and whether
\* the command goes on writing while it runs
Behaviours(cmd, cwd) ==
    IF cmd = CmdFalse
    THEN {[out |-> <<>>, err |-> <<>>, code |-> 1, chatty |-> FALSE,
           cwd |-> cwd]}
    ELSE IF cmd = CmdEchoHello
    THEN {[out |-> <<"hello", "\n">>, err |-> <<>>, code |-> 0,
           chatty |-> FALSE, cwd |-> cwd]}
    ELSE IF cmd = PwdCmd(shell_type)
    THEN {[out |-> <<cwd, "\n">>, err |-> <<>>, code |-> 0, chatty |-> FALSE,
           cwd |-> cwd]}
    ELSE IF Len(cmd) = 3 /\ startswith(cmd, <<"cd", " ">>)
    THEN {[out |-> <<>>, err |-> <<>>, code |-> 0, chatty |-> FALSE,
           cwd |-> cmd[3]]}
    ELSE {[out |-> <<>>, err |-> <<>>, code |-> 0, chatty |-> FALSE,
           cwd |-> cwd],
          [out |-> <<"x", "\n", "\n">>, err |-> <<"e", "\n">>, code |-> 2,
           chatty |-> FALSE, cwd |-> cwd],
          [out |-> <<>>, err |-> <<>>, code |-> 0, chatty |-> TRUE,
           cwd |-> cwd]}

\* the locals of run_command before the call
NoRc == [command |-> <<>>, marker |-> "", full_command |-> <<>>,
         stdout_lines |-> <<>>, stderr_lines |-> <<>>, return_code |-> 0,
         marker_found |-> FALSE, start_time |-> 0]

\* the locals of _collect_output before the call
NoCo == [end_time |-> 0, stdout_lines |-> <<>>, stderr_lines |-> <<>>]

\* the locals of _execute_tool before the call; found is history: whether
\* the run_command that gave returncode had found its marker
NoTool == [name |-> "", response |-> <<>>, line |-> <<>>, lines |-> <<>>,
           follow |-> FALSE, returncode |-> 0, found |-> FALSE]

\* no command started yet
NoRan == [marker |-> "", out |-> <<>>, err |-> <<>>, code |-> 0,
          done |-> FALSE]

\* the session before PersistentShell is constructed
ShellUnused ==
    /\ process = 0
    /\ procs = <<>>
    /\ threads = <<>>
    /\ output_queue = <<>>
    /\ error_queue = <<>>
    /\ clock = 0
    /\ pc = "idle"
    /\ ss_ret = "idle"
    /\ wake = 0
    /\ rc = NoRc
    /\ co = NoCo
    /\ result = <<>>
    /\ submits = 0
    /\ tool = NoTool
    /\ tool_ret = <<>>
    /\ current_dir = <<StartDir>>
    /\ events = <<>>
    /\ deaths = 0
    /\ ran = NoRan
    /\ timed_out = FALSE
    /\ calls = <<>>

\* _truncate_output has not been called
LimiterUnused ==
    /\ output = <<>>
    /\ max_lines = 1
    /\ max_chars = 1
    /\ truncated = <<>>

\* the characters commands are made of
Alphabet == {"a", "f", " ", "-", ";", "&", "|", ">", "<", "$", "(", Backquote}

\* every command string of at most MaxCmdLen characters
CmdStrings == UNION {[1..n -> Alphabet] : n \in 0..MaxCmdLen}

\* the (shell_type, platform.system()) pairs of the model
Platforms == {<<"bash", "Linux">>, <<"cmd", "Windows">>, <<"sh", "FreeBSD">>,
              <<"zsh", "Darwin">>}

(***************************************************************************)
(* The gate on its own: every command string, every configuration          *)
(***************************************************************************)
InitGate ==
    /\ validate_all_commands \in BOOLEAN
    /\ \E p \in Platforms : shell_type = p[1] /\ current_os = p[2]
    /\ command \in CmdStrings
    /\ gate_ret = <<>>
    /\ ShellUnused
    /\ LimiterUnused
    /\ reason = <<>>
    /\ SelectionUnused

\* a call of _is_greenlisted(command)
GateCall ==
    /\ gate_ret = <<>>
    /\ gate_ret' = <<is_greenlisted(command, validate_all_commands,
                                    shell_type, current_os)>>
    /\ UNCHANGED <<validate_all_commands, shell_type, current_os, command>>
    /\ UNCHANGED <<shellVars, limiterVars, promptVars, selectVars>>

NextGate == GateCall

SpecGate == InitGate /\ [][NextGate]_vars

\* what only the caller thread changes
callVars == <<command, gate_ret, pc, ss_ret, wake, rc, co, result, submits,
              tool, tool_ret, current_dir, events, timed_out, calls>>

(***************************************************************************)
(* The shell processes (environment)                                       *)
(***************************************************************************)
Pids == 1..Len(procs)

\* the command text of a full_command the shell was sent
CommandOf(text) == SubSeq(text, 1, Len(text) - Len(Suffix(shell_type, "")))

\* the marker of a full_command the shell was sent
MarkerOf(text) == text[CHOOSE i \in 1..Len(text) : text[i] \in MarkerSyms]

\* the process dies: killed, crashed, or told to exit
ProcDies(p) ==
    [procs EXCEPT ![p].alive = FALSE, ![p].stdin = <<>>, ![p].running = <<>>]

\* the shell takes the next text from its stdin: it exits on the exit command,
\* and otherwise starts the command and writes what the command writes
ShellStart(p) ==
    /\ procs[p].alive
    /\ procs[p].running = <<>>
    /\ procs[p].stdin # <<>>
    /\ LET text == Head(procs[p].stdin) IN
       IF text = ExitText
       THEN /\ procs' = ProcDies(p)
            /\ deaths' = IF p = process THEN deaths + 1 ELSE deaths
            /\ UNCHANGED ran
       ELSE /\ \E b \in Behaviours(CommandOf(text), procs[p].cwd) :
                 /\ procs' = [procs EXCEPT
                        ![p].stdin = Tail(@),
                        ![p].running = <<[marker |-> MarkerOf(text),
                                          code |-> b.code,
                                          chatty |-> b.chatty,
                                          last |-> clock]>>,
                        ![p].out = @ \o b.out,
                        ![p].err = @ \o b.err,
                        ![p].cwd = b.cwd]
                 /\ ran' = [marker |-> MarkerOf(text), out |-> b.out,
                            err |-> b.err, code |-> b.code, done |-> FALSE]
            /\ UNCHANGED deaths
    /\ UNCHANGED <<platformVars, limiterVars, promptVars, selectVars, callVars, process, threads, output_queue,
                   error_queue, clock>>

\* a running command that keeps writing writes one more line, one per tick
ShellChat(p) ==
    /\ procs[p].alive
    /\ procs[p].running # <<>>
    /\ procs[p].running[1].chatty
    /\ procs[p].running[1].last < clock
    /\ procs' = [procs EXCEPT ![p].out = @ \o <<"y", "\n">>,
                              ![p].running[1].last = clock]
    /\ ran' = IF ran.marker = procs[p].running[1].marker
              THEN [ran EXCEPT !.out = @ \o <<"y", "\n">>]
              ELSE ran
    /\ UNCHANGED <<platformVars, limiterVars, promptVars, selectVars, callVars, process, threads, output_queue,
                   error_queue, clock, deaths>>

\* the command ends and the shell runs the echo of the marker and the status
ShellFinish(p) ==
    /\ procs[p].alive
    /\ procs[p].running # <<>>
    /\ procs' = [procs EXCEPT
           ![p].running = <<>>,
           ![p].out = @ \o <<procs[p].running[1].marker, " ",
                             ToString(procs[p].running[1].code), "\n">>]
    /\ ran' = IF ran.marker = procs[p].running[1].marker
              THEN [ran EXCEPT !.done = TRUE]
              ELSE ran
    /\ UNCHANGED <<platformVars, limiterVars, promptVars, selectVars, callVars, process, threads, output_queue,
                   error_queue, clock, deaths>>

\* the process dies at any moment
ProcDie(p) ==
    /\ procs[p].alive
    /\ procs' = ProcDies(p)
    /\ deaths' = IF p = process THEN deaths + 1 ELSE deaths
    /\ UNCHANGED <<platformVars, limiterVars, promptVars, selectVars, callVars, process, threads, output_queue,
                   error_queue, clock, ran>>

(***************************************************************************)
(* _read_output and _read_error                                            *)
(***************************************************************************)
Tids == 1..Len(threads)

PipeOf(t) == IF t.stream = "out" THEN procs[t.pid].out ELSE procs[t.pid].err

\* the test of the while loop, by a thread that has the line `line` to put or
\* none: the thread ends when self.process is None or has exited, and
\* otherwise calls readline on a stream of self.process
AfterLoopTest(t) ==
    IF process = 0 \/ ~procs[process].alive
    THEN [t EXCEPT !.st = "done", !.line = <<>>]
    ELSE [t EXCEPT !.st = "read", !.pid = process, !.line = <<>>]

\* readline returns: a line, once the pipe holds one; what is left and then
\* the empty string at end of file, once the process has exited. The empty
\* string is not put and the thread is back at the test of its loop
ReaderRead(i) ==
    LET t == threads[i]
        pipe == PipeOf(t)
        n == IndexOf(pipe, "\n")
        got == IF n > 0 THEN n ELSE Len(pipe)
    IN  /\ t.st = "read"
        /\ n > 0 \/ ~procs[t.pid].alive
        /\ threads' = IF got > 0
                      THEN [threads EXCEPT ![i].st = "got",
                                           ![i].line = SubSeq(pipe, 1, got)]
                      ELSE [threads EXCEPT ![i] = AfterLoopTest(t)]
        /\ procs' = IF t.stream = "out"
                    THEN [procs EXCEPT ![t.pid].out = DropFirst(@, got)]
                    ELSE [procs EXCEPT ![t.pid].err = DropFirst(@, got)]
        /\ UNCHANGED <<platformVars, limiterVars, promptVars, selectVars, callVars, process, output_queue,
                       error_queue, clock, deaths, ran>>

\* the line goes onto the queue of the thread's stream, and the thread is
\* back at the test of its loop
ReaderPut(i) ==
    /\ threads[i].st = "got"
    /\ threads' = [threads EXCEPT ![i] = AfterLoopTest(threads[i])]
    /\ IF threads[i].stream = "out"
       THEN /\ output_queue' = Append(output_queue, threads[i].line)
            /\ UNCHANGED error_queue
       ELSE /\ error_queue' = Append(error_queue, threads[i].line)
            /\ UNCHANGED output_queue
    /\ UNCHANGED <<platformVars, limiterVars, promptVars, selectVars, callVars, process, procs, clock, deaths, ran>>

(***************************************************************************)
(* time                                                                    *)
(***************************************************************************)
\* the clock is read by the caller thread only: it advances while that thread
\* sleeps in _collect_output or _start_shell, or waits in close()
Tick ==
    /\ clock < MaxClock
    /\ \/ pc = "co_loop" /\ clock < co.end_time
                         /\ output_queue = <<>> /\ error_queue = <<>>
       \/ pc = "ss_warm" /\ clock < wake
       \/ pc = "cl_wait" /\ clock < wake /\ procs[process].alive
    /\ clock' = clock + 1
    /\ UNCHANGED <<platformVars, limiterVars, promptVars, selectVars, callVars, process, procs, threads,
                   output_queue, error_queue, deaths, ran>>

(***************************************************************************)
(* PersistentShell._start_shell                                            *)
(***************************************************************************)
\* lines 199-210 of run_command: the marker made of the clock reading t, and
\* full_command
Marked(r, t) ==
    [r EXCEPT !.marker = Marker(t),
              !.full_command = FullCommand(shell_type, r.command, Marker(t))]

\* Popen and the start of the two reader threads; Popen may raise, and does
\* when the executable cannot be run
StartShellPopen ==
    /\ pc = "ss_popen"
    /\ \/ /\ Len(procs) < MaxSpawns
          /\ shell_executable \in installed
          /\ procs' = Append(procs, NewProc)
          /\ process' = Len(procs) + 1
          /\ threads' = threads \o <<NewThread("out", Len(procs) + 1),
                                     NewThread("err", Len(procs) + 1)>>
          /\ wake' = clock + Warmup
          /\ pc' = "ss_warm"
          /\ events' = Append(events, [ev |-> "spawn", ok |-> TRUE,
                                       text |-> <<>>, deaths |-> deaths])
       \/ /\ pc' = "raised"
          /\ events' = Append(events, [ev |-> "spawn", ok |-> FALSE,
                                       text |-> <<>>, deaths |-> deaths])
          /\ UNCHANGED <<process, procs, threads, wake>>
    /\ UNCHANGED <<platformVars, limiterVars, promptVars, selectVars, command, gate_ret, output_queue, error_queue,
                   clock, ss_ret, rc, co, result, submits, tool, tool_ret,
                   current_dir, deaths, ran, timed_out, calls>>

\* the sleep is over: _clear_queues, and _start_shell returns; back at line
\* 199 run_command clears the queues again and makes the marker
StartShellWarm ==
    /\ pc = "ss_warm"
    /\ clock >= wake
    /\ output_queue' = <<>>
    /\ error_queue' = <<>>
    /\ IF ss_ret = "rc_clear"
       THEN /\ pc' = "rc_write"
            /\ rc' = Marked(rc, clock)
            /\ calls' = [calls EXCEPT ![Len(calls)].marker = Marker(clock)]
       ELSE /\ pc' = ss_ret
            /\ UNCHANGED <<rc, calls>>
    /\ UNCHANGED <<platformVars, limiterVars, promptVars, selectVars, command, gate_ret, process, procs, threads,
                   clock, ss_ret, wake, co, result, submits, tool, tool_ret,
                   current_dir, events, deaths, ran, timed_out>>

(***************************************************************************)
(* PersistentShell.run_command                                             *)
(***************************************************************************)
\* the call, up to the write: the liveness probe of line 195 leads to
\* _start_shell, or else to _clear_queues, the marker and full_command
RunCommand(cmd) ==
    /\ submits' = submits + 1
    /\ events' = <<>>
    /\ co' = NoCo
    /\ result' = <<>>
    /\ ran' = NoRan
    /\ IF process = 0 \/ ~procs[process].alive
       THEN /\ pc' = "ss_popen"
            /\ ss_ret' = "rc_clear"
            /\ rc' = [NoRc EXCEPT !.command = cmd]
            /\ calls' = Append(calls, [command |-> cmd, marker |-> "",
                                       pid |-> 0])
            /\ UNCHANGED <<output_queue, error_queue>>
       ELSE /\ pc' = "rc_write"
            /\ rc' = Marked([NoRc EXCEPT !.command = cmd], clock)
            /\ calls' = Append(calls, [command |-> cmd,
                                       marker |-> Marker(clock), pid |-> 0])
            /\ output_queue' = <<>>
            /\ error_queue' = <<>>
            /\ UNCHANGED ss_ret

\* the write of full_command succeeded: the locals of lines 222-228, and the
\* first call of _collect_output(0.1)
Written ==
    /\ procs' = [procs EXCEPT ![process].stdin = Append(@, rc.full_command)]
    /\ events' = Append(events, [ev |-> "write", ok |-> TRUE,
                                 text |-> rc.full_command, deaths |-> deaths])
    /\ deaths' = 0
    /\ calls' = [calls EXCEPT ![Len(calls)].pid = process]
    /\ rc' = [rc EXCEPT !.start_time = clock]
    /\ co' = [NoCo EXCEPT !.end_time = clock + Grace]
    /\ pc' = "co_loop"

\* variant: a failed write is not retried, the error goes to the caller
RunWrite_NoRetry ==
    /\ pc = "rc_write"
    /\ IF procs[process].alive
       THEN Written /\ UNCHANGED ss_ret
       ELSE /\ events' = Append(events, [ev |-> "write", ok |-> FALSE,
                                  text |-> rc.full_command, deaths |-> deaths])
            /\ pc' = "raised"
            /\ UNCHANGED <<procs, deaths, rc, co, ss_ret, calls>>
    /\ UNCHANGED <<platformVars, limiterVars, promptVars, selectVars, command, gate_ret, process, threads,
                   output_queue, error_queue, clock, wake, result, submits,
                   tool, tool_ret, current_dir, ran, timed_out>>

\* the write and flush of lines 213-214; a broken pipe leads to _start_shell
RunWrite ==
    /\ pc = "rc_write"
    /\ IF procs[process].alive
       THEN Written /\ UNCHANGED ss_ret
       ELSE /\ events' = Append(events, [ev |-> "write", ok |-> FALSE,
                                  text |-> rc.full_command, deaths |-> deaths])
            /\ pc' = "ss_popen"
            /\ ss_ret' = "rc_rewrite"
            /\ UNCHANGED <<procs, deaths, rc, co, calls>>
    /\ UNCHANGED <<platformVars, limiterVars, promptVars, selectVars, command, gate_ret, process, threads,
                   output_queue, error_queue, clock, wake, result, submits,
                   tool, tool_ret, current_dir, ran, timed_out>>

\* variant: the second write sends a full_command with a marker made anew
RunRewrite_NewMarker ==
    /\ pc = "rc_rewrite"
    /\ IF procs[process].alive
       THEN /\ procs' = [procs EXCEPT ![process].stdin =
                            Append(@, Marked(rc, clock).full_command)]
            /\ events' = Append(events, [ev |-> "write", ok |-> TRUE,
                                  text |-> Marked(rc, clock).full_command,
                                  deaths |-> deaths])
            /\ deaths' = 0
            /\ calls' = [calls EXCEPT ![Len(calls)].pid = process,
                                      ![Len(calls)].marker = Marker(clock)]
            /\ rc' = [Marked(rc, clock) EXCEPT !.start_time = clock]
            /\ co' = [NoCo EXCEPT !.end_time = clock + Grace]
            /\ pc' = "co_loop"
       ELSE /\ events' = Append(events, [ev |-> "write", ok |-> FALSE,
                                  text |-> rc.full_command, deaths |-> deaths])
            /\ pc' = "raised"
            /\ UNCHANGED <<procs, deaths, rc, co, calls>>
    /\ UNCHANGED <<platformVars, limiterVars, promptVars, selectVars, command, gate_ret, process, threads,
                   output_queue, error_queue, clock, ss_ret, wake, result,
                   submits, tool, tool_ret, current_dir, ran, timed_out>>

\* the second write and flush of lines 218-219, outside the try
RunRewrite ==
    /\ pc = "rc_rewrite"
    /\ IF procs[process].alive
       THEN Written
       ELSE /\ events' = Append(events, [ev |-> "write", ok |-> FALSE,
                                  text |-> rc.full_command, deaths |-> deaths])
            /\ pc' = "raised"
            /\ UNCHANGED <<procs, deaths, rc, co, calls>>
    /\ UNCHANGED <<platformVars, limiterVars, promptVars, selectVars, command, gate_ret, process, threads,
                   output_queue, error_queue, clock, ss_ret, wake, result,
                   submits, tool, tool_ret, current_dir, ran, timed_out>>

\* variant: the text before the marker is not cut off
Checked_KeepsMarker(r, c) ==
    IF Contains(c.stdout_lines, <<r.marker>>)
    THEN [r EXCEPT
        !.stdout_lines = @ \o c.stdout_lines,
        !.return_code = ParsedCode(shell_type, c.stdout_lines, r.marker),
        !.marker_found = TRUE,
        !.stderr_lines = @ \o c.stderr_lines]
    ELSE [r EXCEPT
        !.stdout_lines = @ \o c.stdout_lines,
        !.stderr_lines = @ \o c.stderr_lines]

\* variant: the marker of any call ends the loop and gives the return code
Checked_AnyMarker(r, c) ==
    IF \E i \in 1..Len(c.stdout_lines) : c.stdout_lines[i] \in MarkerSyms
    THEN LET mk == MarkerOf(c.stdout_lines) IN
         [r EXCEPT
            !.stdout_lines = @ \o SplitFirst(c.stdout_lines, mk),
            !.return_code = ParsedCode(shell_type, c.stdout_lines, mk),
            !.marker_found = TRUE,
            !.stderr_lines = @ \o c.stderr_lines]
    ELSE [r EXCEPT
        !.stdout_lines = @ \o c.stdout_lines,
        !.stderr_lines = @ \o c.stderr_lines]

\* lines 233-259: the marker is looked for in what _collect_output returned
Checked(r, c) ==
    IF Contains(c.stdout_lines, <<r.marker>>)
    THEN [r EXCEPT
        !.stdout_lines = @ \o SplitFirst(c.stdout_lines, r.marker),
        !.return_code = ParsedCode(shell_type, c.stdout_lines, r.marker),
        !.marker_found = TRUE,
        !.stderr_lines = @ \o c.stderr_lines]
    ELSE [r EXCEPT
        !.stdout_lines = @ \o c.stdout_lines,
        !.stderr_lines = @ \o c.stderr_lines]

\* lines 261-264: what run_command returns
ReturnValue(r) ==
    <<rstrip(r.stdout_lines), rstrip(r.stderr_lines), r.return_code>>

\* _collect_output(0.1) inside the loop of line 230. While the clock has not
\* reached end_time both queues are drained, and a drain that got something
\* moves end_time. Once it has, the routine returns, the marker is looked for,
\* and the test of line 230 leads to another _collect_output(0.1) or to the
\* return of run_command
CollectOutput ==
    /\ pc = "co_loop"
    /\ IF clock < co.end_time
       THEN /\ output_queue # <<>> \/ error_queue # <<>>
            /\ co' = [end_time |-> clock + Grace,
                      stdout_lines |-> co.stdout_lines \o Join(output_queue),
                      stderr_lines |-> co.stderr_lines \o Join(error_queue)]
            /\ output_queue' = <<>>
            /\ error_queue' = <<>>
            /\ UNCHANGED <<pc, rc, result, timed_out>>
       ELSE /\ rc' = Checked(rc, co)
            /\ IF ~rc'.marker_found /\ (clock - rc'.start_time) < timeout
               THEN /\ co' = [NoCo EXCEPT !.end_time = clock + Grace]
                    /\ UNCHANGED <<pc, result, timed_out>>
               ELSE /\ co' = NoCo
                    /\ result' = ReturnValue(rc')
                    /\ timed_out' = (timed_out \/ ~rc'.marker_found)
                    /\ pc' = "rc_done"
            /\ UNCHANGED <<output_queue, error_queue>>
    /\ UNCHANGED <<platformVars, limiterVars, promptVars, selectVars, command, gate_ret, process, procs, threads,
                   clock, ss_ret, wake, submits, tool, tool_ret, current_dir,
                   events, deaths, ran, calls>>

(***************************************************************************)
(* PersistentShell.close                                                   *)
(***************************************************************************)
\* lines 270-272: the exit command is written, and a broken pipe leads to the
\* except branch
CloseWrite ==
    /\ pc = "cl_write"
    /\ IF procs[process].alive
       THEN /\ procs' = [procs EXCEPT ![process].stdin = Append(@, ExitText)]
            /\ wake' = clock + CloseWait
            /\ pc' = "cl_wait"
       ELSE /\ pc' = "cl_kill"
            /\ UNCHANGED <<procs, wake>>
    /\ UNCHANGED <<platformVars, limiterVars, promptVars, selectVars, command, gate_ret, process, threads,
                   output_queue, error_queue, clock, ss_ret, rc, co, result,
                   submits, tool, tool_ret, current_dir, events, deaths, ran,
                   timed_out, calls>>

\* variant: self.process is cleared in the except branch only
CloseWaited_KeepsHandle ==
    /\ pc = "cl_wait"
    /\ IF ~procs[process].alive
       THEN pc' = "idle"
       ELSE clock >= wake /\ pc' = "cl_kill"
    /\ UNCHANGED <<platformVars, limiterVars, promptVars, selectVars, command, gate_ret, process,
                   procs, threads, output_queue, error_queue, clock, ss_ret,
                   wake, rc, co, result, submits, tool, tool_ret, current_dir,
                   events, deaths, ran, timed_out, calls>>

\* process.wait(timeout=2): returns once the process has exited, raises
\* TimeoutExpired when the wait is over and it has not
CloseWaited ==
    /\ pc = "cl_wait"
    /\ IF ~procs[process].alive
       THEN /\ process' = 0
            /\ pc' = "idle"
       ELSE /\ clock >= wake
            /\ pc' = "cl_kill"
            /\ UNCHANGED process
    /\ UNCHANGED <<platformVars, limiterVars, promptVars, selectVars, command, gate_ret, procs, threads,
                   output_queue, error_queue, clock, ss_ret, wake, rc, co,
                   result, submits, tool, tool_ret, current_dir, events,
                   deaths, ran, timed_out, calls>>

\* the except branch: SIGTERM to the process group, which a shell may ignore;
\* os.getpgid raises when the process has exited and was reaped; the finally
\* clause clears self.process either way
CloseKill ==
    /\ pc = "cl_kill"
    /\ process' = 0
    /\ IF procs[process].alive
       THEN /\ \E dies \in BOOLEAN :
                 procs' = IF dies THEN ProcDies(process) ELSE procs
            /\ deaths' = deaths + 1
            /\ pc' = "idle"
       ELSE /\ \E reaped \in BOOLEAN :
                 pc' = IF reaped THEN "close_raised" ELSE "idle"
            /\ UNCHANGED <<procs, deaths>>
    /\ UNCHANGED <<platformVars, limiterVars, promptVars, selectVars, command, gate_ret, threads, output_queue,
                   error_queue, clock, ss_ret, wake, rc, co, result, submits,
                   tool, tool_ret, current_dir, events, ran, timed_out,
                   calls>>

(***************************************************************************)
(* Shelly._execute_tool                                                    *)
(***************************************************************************)
\* text.split('\n')
RECURSIVE SplitLines(_)
SplitLines(text) ==
    IF IndexOf(text, "\n") = 0 THEN <<text>>
    ELSE <<SplitFirst(text, "\n")>>
         \o SplitLines(DropFirst(text, IndexOf(text, "\n")))

\* variant: only empty lines are skipped
RECURSIVE Runnable_KeepsComments(_)
Runnable_KeepsComments(lines) ==
    IF lines = <<>> THEN <<>>
    ELSE IF strip(Head(lines)) # <<>>
    THEN lines
    ELSE Runnable_KeepsComments(Tail(lines))

\* the lines of a script from the first one that is run: empty lines and
\* comments are skipped (line 748)
RECURSIVE Runnable(_)
Runnable(lines) ==
    IF lines = <<>> THEN <<>>
    ELSE IF strip(Head(lines)) # <<>> /\ ~startswith(strip(Head(lines)), <<"#">>)
    THEN lines
    ELSE Runnable(Tail(lines))

\* variant: every answer is taken for a yes
Accepted_AnyAnswer(response) == TRUE

\* response in ["yes", "y"]
Accepted(response) == response \in {<<"y", "e", "s">>, <<"y">>}

\* the directory read from the output of the pwd command (lines 678-683)
DirOf(new_stdout) ==
    IF shell_type = "cmd"
    THEN LET lines == SplitLines(strip(new_stdout)) IN lines[Len(lines)]
    ELSE strip(new_stdout)

\* the tool calls the model makes
ToolCalls ==
    {[name |-> "run_command", text |-> CmdA],
     [name |-> "run_command", text |-> CmdCd],
     [name |-> "run_command", text |-> <<" ", "false">>],
     [name |-> "run_command", text |-> CmdEchoHello],
     [name |-> "run_command", text |-> <<" ">>],
     [name |-> "shell_script", text |-> <<"#", "\n", "false", "\n", "\n", "a">>],
     [name |-> "other", text |-> <<>>]}

\* what the user answers to a prompt
Responses == {<<"Y">>, <<"y", "e", "s", " ">>, <<"n">>}

\* what the user answers to "Why not?"
Reasons == {<<>>, <<"r", " ">>}

\* variant: the error text of a declined call without the reason
DeclinedError_NoReason(name, why) ==
    IF name = "run_command"
    THEN <<"User declined to run command: ">>
    ELSE <<"User declined to run script: ">>

\* f"User declined to run command: {reason}" and
\* f"User declined to run script: {reason}"
DeclinedError(name, why) ==
    IF name = "run_command"
    THEN <<"User declined to run command: ">> \o why
    ELSE <<"User declined to run script: ">> \o why

\* _execute_tool returns ret
Finish(ret) ==
    /\ pc' = "idle"
    /\ tool' = NoTool
    /\ tool_ret' = <<ret>>
    /\ command' = <<>>
    /\ gate_ret' = <<>>
    /\ rc' = NoRc
    /\ co' = NoCo
    /\ result' = <<>>
    /\ events' = <<>>
    /\ UNCHANGED <<ss_ret, submits, output_queue, error_queue, ran, calls>>

\* _execute_tool, with the locals t, calls self.shell.run_command(cmd)
Call(cmd, t) ==
    /\ RunCommand(cmd)
    /\ tool' = t
    /\ UNCHANGED <<tool_ret, command, gate_ret>>

\* after a command and its pwd probe: the run_command tool returns, the
\* shell_script tool goes to the next line that is run, and returns after the
\* last (lines 746-794, 686-708)
Continue(t) ==
    LET rest == Runnable(t.lines) IN
    IF t.name = "run_command" \/ rest = <<>>
    THEN Finish([success |-> t.returncode = 0, error |-> <<>>])
    ELSE Call(strip(Head(rest)),
              [t EXCEPT !.line = strip(Head(rest)), !.lines = Tail(rest),
                        !.follow = FALSE])

\* _execute_tool(tool_name, tool_input) up to the prompt, or, for a command
\* the gate allows, up to the write of run_command
ExecuteTool ==
    /\ pc = "idle"
    /\ submits < MaxSubmits
    /\ \E call \in ToolCalls :
         LET text == strip(call.text) IN
         IF call.name \notin {"run_command", "shell_script"}
         THEN Finish([success |-> FALSE, error |-> <<"Unknown tool">>])
         ELSE IF text = <<>>
         THEN Finish([success |-> FALSE,
                      error |-> IF call.name = "run_command"
                                THEN <<"No command provided">>
                                ELSE <<"No script provided">>])
         ELSE IF call.name = "run_command"
         THEN LET ok == is_greenlisted(text, validate_all_commands,
                                       shell_type, current_os) IN
              /\ command' = text
              /\ gate_ret' = <<ok>>
              /\ tool' = [NoTool EXCEPT !.name = call.name, !.line = text]
              /\ tool_ret' = <<>>
              /\ IF ok
                 THEN RunCommand(text)
                 ELSE /\ pc' = "et_prompt"
                      /\ UNCHANGED <<ss_ret, rc, co, result, submits, events,
                                     output_queue, error_queue, ran, calls>>
         ELSE /\ command' = text
              /\ gate_ret' = <<>>
              /\ tool' = [NoTool EXCEPT !.name = call.name]
              /\ tool_ret' = <<>>
              /\ pc' = "et_prompt"
              /\ UNCHANGED <<ss_ret, rc, co, result, submits, events,
                             output_queue, error_queue, ran, calls>>
    /\ reason' = <<>>
    /\ UNCHANGED <<platformVars, limiterVars, selectVars, process, procs,
                   threads, clock, wake, current_dir, deaths, timed_out>>

\* the answer to "Run this command?" or "Run this script?": on a yes the
\* command, or the first line of the script that is run, goes to run_command;
\* on any other answer the user is asked "Why not?" and the answer, stripped,
\* is returned in the error text (lines 647-654, 729-736)
Respond ==
    /\ pc = "et_prompt"
    /\ \E raw \in Responses :
         LET response == strip(lower(raw)) IN
         IF ~Accepted(response)
         THEN \E why \in Reasons :
                /\ reason' = <<strip(why)>>
                /\ Finish([success |-> FALSE,
                           error |-> DeclinedError(tool.name, strip(why))])
         ELSE /\ reason' = reason
              /\ IF tool.name = "run_command"
                 THEN Call(command, [tool EXCEPT !.response = response])
                 ELSE Continue([tool EXCEPT
                                    !.response = response,
                                    !.lines = SplitLines(strip(command))])
    /\ UNCHANGED <<platformVars, limiterVars, selectVars, process, procs,
                   threads, clock, wake, current_dir, deaths, timed_out>>

\* run_command has returned to _execute_tool or has raised: after a command
\* that starts with "cd " the pwd command is run and its output becomes
\* current_dir; an exception becomes an error result. The return code is
\* kept (lines 657, 754), and with it, as history, whether the marker of that
\* command was found
ToolReturn ==
    /\ pc \in {"rc_done", "raised"}
    /\ IF pc = "raised"
       THEN /\ Finish([success |-> FALSE, error |-> <<"Error executing">>])
            /\ UNCHANGED current_dir
       ELSE IF tool.follow
       THEN /\ current_dir' = DirOf(result[1])
            /\ Continue([tool EXCEPT !.follow = FALSE])
       ELSE IF startswith(tool.line, <<"cd", " ">>)
       THEN /\ Call(PwdCmd(shell_type),
                    [tool EXCEPT !.returncode = result[3], !.follow = TRUE,
                                 !.found = rc.marker_found])
            /\ UNCHANGED current_dir
       ELSE /\ Continue([tool EXCEPT !.returncode = result[3],
                                       !.found = rc.marker_found])
            /\ UNCHANGED current_dir
    /\ UNCHANGED <<platformVars, limiterVars, promptVars, selectVars, process, procs, threads, clock, wake, deaths,
                   timed_out>>

(***************************************************************************)
(* The program: Shelly with its shell, while the shell process lives       *)
(***************************************************************************)
\* PersistentShell() has returned: the shell runs, its two reader threads are
\* in readline, the queues were cleared
Constructed ==
    /\ process = 1
    /\ procs = <<NewProc>>
    /\ threads = <<NewThread("out", 1), NewThread("err", 1)>>
    /\ output_queue = <<>>
    /\ error_queue = <<>>
    /\ clock = 0
    /\ pc = "idle"
    /\ ss_ret = "idle"
    /\ wake = 0
    /\ rc = NoRc
    /\ co = NoCo
    /\ result = <<>>
    /\ submits = 0
    /\ tool = NoTool
    /\ tool_ret = <<>>
    /\ current_dir = <<StartDir>>
    /\ events = <<>>
    /\ deaths = 0
    /\ ran = NoRan
    /\ timed_out = FALSE
    /\ calls = <<>>

\* Shelly() has returned, on Linux with bash
Init ==
    /\ validate_all_commands = FALSE
    /\ shell_type = "bash"
    /\ current_os = "Linux"
    /\ command = <<>>
    /\ gate_ret = <<>>
    /\ SelectedBash
    /\ Constructed
    /\ LimiterUnused
    /\ reason = <<>>

Next ==
    \/ ExecuteTool
    \/ Respond
    \/ ToolReturn
    \/ RunWrite
    \/ CollectOutput
    \/ Tick
    \/ \E p \in Pids : ShellStart(p)
    \/ \E p \in Pids : ShellChat(p)
    \/ \E p \in Pids : ShellFinish(p)
    \/ \E i \in Tids : ReaderRead(i)
    \/ \E i \in Tids : ReaderPut(i)

Spec == Init /\ [][Next]_vars

(***************************************************************************)
(* PersistentShell on its own: any caller, a process that can die          *)
(***************************************************************************)
\* the commands the caller submits
SessionCommands == {CmdFalse}

InitSession ==
    /\ validate_all_commands = FALSE
    /\ shell_type = "bash"
    /\ current_os = "Linux"
    /\ command = <<>>
    /\ gate_ret = <<>>
    /\ SelectedBash
    /\ Constructed
    /\ LimiterUnused
    /\ reason = <<>>

\* the caller calls run_command(cmd)
Submit ==
    /\ pc = "idle"
    /\ submits < MaxSubmits
    /\ \E cmd \in SessionCommands : RunCommand(cmd)
    /\ UNCHANGED <<platformVars, limiterVars, promptVars, selectVars, command, gate_ret, process, procs, threads,
                   clock, wake, tool, tool_ret, current_dir, deaths, timed_out>>

\* run_command or close has returned or raised, and the caller goes on
Returned ==
    /\ pc \in {"rc_done", "raised", "close_raised", "cl_none"}
    /\ pc' = "idle"
    /\ rc' = NoRc
    /\ co' = NoCo
    /\ result' = <<>>
    /\ events' = <<>>
    /\ UNCHANGED <<platformVars, limiterVars, promptVars, selectVars, command, gate_ret, process, procs, threads,
                   output_queue, error_queue, clock, ss_ret, wake, submits,
                   tool, tool_ret, current_dir, deaths, ran, timed_out, calls>>

\* the caller calls close(): nothing is done when self.process is None, and
\* close() returns
CloseCall ==
    /\ pc = "idle"
    /\ pc' = IF process = 0 THEN "cl_none" ELSE "cl_write"
    /\ UNCHANGED <<platformVars, limiterVars, promptVars, selectVars, command, gate_ret, process, procs, threads,
                   output_queue, error_queue, clock, ss_ret, wake, rc, co,
                   result, submits, tool, tool_ret, current_dir, events,
                   deaths, ran, timed_out, calls>>

NextSession ==
    \/ Submit
    \/ Returned
    \/ CloseCall
    \/ StartShellPopen
    \/ StartShellWarm
    \/ RunWrite
    \/ RunRewrite
    \/ CollectOutput
    \/ CloseWrite
    \/ CloseWaited
    \/ CloseKill
    \/ Tick
    \/ \E p \in Pids : ShellStart(p)
    \/ \E p \in Pids : ShellFinish(p)
    \/ \E p \in Pids : ProcDie(p)
    \/ \E i \in Tids : ReaderRead(i)
    \/ \E i \in Tids : ReaderPut(i)

SpecSession == InitSession /\ [][NextSession]_vars

(***************************************************************************)
(* PersistentShell with a caller that changes directory and then asks for  *)
(* the directory, and a process that can die                               *)
(***************************************************************************)
\* the caller calls run_command("cd tmp") and after it run_command("pwd")
SubmitDir ==
    /\ pc = "idle"
    /\ submits < MaxSubmits
    /\ RunCommand(IF submits = 0 THEN CmdCd ELSE PwdCmd(shell_type))
    /\ UNCHANGED <<platformVars, limiterVars, promptVars, selectVars, command, gate_ret, process,
                   procs, threads, clock, wake, tool, tool_ret, current_dir,
                   deaths, timed_out>>

NextDir ==
    \/ SubmitDir
    \/ Returned
    \/ StartShellPopen
    \/ StartShellWarm
    \/ RunWrite
    \/ RunRewrite
    \/ CollectOutput
    \/ Tick
    \/ \E p \in Pids : ShellStart(p)
    \/ \E p \in Pids : ShellFinish(p)
    \/ \E p \in Pids : ProcDie(p)
    \/ \E i \in Tids : ReaderRead(i)
    \/ \E i \in Tids : ReaderPut(i)

SpecDir == InitSession /\ [][NextDir]_vars


(***************************************************************************)
(* The construction of PersistentShell                                     *)
(***************************************************************************)
\* before PersistentShell(shell_path) is called on the platform os, with the
\* environment env and the executables inst
NotConstructed(os, path, env, inst) ==
    /\ validate_all_commands = FALSE
    /\ shell_type = ""
    /\ current_os = os
    /\ command = <<>>
    /\ gate_ret = <<>>
    /\ shell_path = path
    /\ environ = env
    /\ installed = inst
    /\ shell_executable = <<>>
    /\ process = 0
    /\ procs = <<>>
    /\ threads = <<>>
    /\ output_queue = <<>>
    /\ error_queue = <<>>
    /\ clock = 0
    /\ pc = "new"
    /\ ss_ret = "idle"
    /\ wake = 0
    /\ rc = NoRc
    /\ co = NoCo
    /\ result = <<>>
    /\ submits = 0
    /\ tool = NoTool
    /\ tool_ret = <<>>
    /\ current_dir = <<StartDir>>
    /\ events = <<>>
    /\ deaths = 0
    /\ ran = NoRan
    /\ timed_out = FALSE
    /\ calls = <<>>
    /\ LimiterUnused
    /\ reason = <<>>

\* PersistentShell.__init__ up to the call of _start_shell (lines 40-84)
Construct ==
    /\ pc = "new"
    /\ shell_executable' =
           Selection(current_os, shell_path, environ, installed)[1]
    /\ shell_type' = Selection(current_os, shell_path, environ, installed)[2]
    /\ pc' = "ss_popen"
    /\ ss_ret' = "idle"
    /\ UNCHANGED <<validate_all_commands, current_os, command, gate_ret,
                   limiterVars, promptVars, shell_path, environ, installed,
                   process, procs, threads, output_queue, error_queue,
                   clock, wake, rc, co, result, submits, tool, tool_ret,
                   current_dir, events, deaths, ran, timed_out, calls>>

\* the platforms, arguments, environments and sets of executables the
\* construction is tried on
SelectPlatforms == {"Linux", "Windows"}

SelectPaths == {<<>>, BinZsh, BinFish, PowershellMixed, BashExe}

SelectEnvironments ==
    {<<>>, [SHELL |-> BinZsh], [SHELL |-> BinPwsh], [COMSPEC |-> CmdExe],
     [COMSPEC |-> BashExe]}

SelectInstalled == SUBSET {BinBash, BinZsh, BinPwsh, PowershellExe, CmdExe}

InitSelect ==
    \E os \in SelectPlatforms, env \in SelectEnvironments,
       inst \in SelectInstalled :
        \E path \in SelectPaths \cup {ShellyShellPath(os, env)} :
            NotConstructed(os, path, env, inst)

NextSelect ==
    \/ Construct
    \/ StartShellPopen
    \/ StartShellWarm
    \/ Tick

SpecSelect == InitSelect /\ [][NextSelect]_vars

(***************************************************************************)
(* PersistentShell constructed in each dialect, a caller that runs one     *)
(* command twice, and a process that can die                               *)
(***************************************************************************)
\* the constructions: zsh from SHELL, cmd as Shelly hands it over on
\* Windows, powershell by the probe on Windows, PowerShell Core on Linux
DialectInputs ==
    {[os |-> "Linux", path |-> BinZsh, env |-> [SHELL |-> BinZsh],
      inst |-> {BinZsh}],
     [os |-> "Windows", path |-> CmdExe, env |-> [COMSPEC |-> CmdExe],
      inst |-> {CmdExe, PowershellExe}],
     [os |-> "Windows", path |-> <<>>, env |-> <<>>,
      inst |-> {CmdExe, PowershellExe}],
     [os |-> "Linux", path |-> BinPwsh, env |-> <<>>, inst |-> {BinPwsh}]}

InitDialect ==
    \E in \in DialectInputs : NotConstructed(in.os, in.path, in.env, in.inst)

\* the caller calls run_command("false")
SubmitOne ==
    /\ pc = "idle"
    /\ process # 0
    /\ submits < MaxSubmits
    /\ RunCommand(CmdFalse)
    /\ UNCHANGED <<platformVars, limiterVars, promptVars, selectVars, command,
                   gate_ret, process, procs, threads, clock, wake, tool,
                   tool_ret, current_dir, deaths, timed_out>>

NextDialect ==
    \/ Construct
    \/ SubmitOne
    \/ Returned
    \/ StartShellPopen
    \/ StartShellWarm
    \/ RunWrite
    \/ RunRewrite
    \/ CollectOutput
    \/ Tick
    \/ \E p \in Pids : ShellStart(p)
    \/ \E p \in Pids : ShellFinish(p)
    \/ \E p \in Pids : ProcDie(p)
    \/ \E i \in Tids : ReaderRead(i)
    \/ \E i \in Tids : ReaderPut(i)

SpecDialect == InitDialect /\ [][NextDialect]_vars
(***************************************************************************)
(* Shelly._truncate_output                                                 *)
(***************************************************************************)
\* seq[:n] for n >= 0
PyHead(seq, n) == SubSeq(seq, 1, IF n < Len(seq) THEN n ELSE Len(seq))

\* seq[-n:] for n >= 0: the last n elements, and all of seq when n is 0
PyTail(seq, n) ==
    IF n = 0 \/ n >= Len(seq) THEN seq
    ELSE SubSeq(seq, Len(seq) - n + 1, Len(seq))

\* -n // 2, negated: Python's floor division rounds -n / 2 down
HalfUp(n) == (n + 1) \div 2

\* '\n'.join(lines)
RECURSIVE JoinLines(_)
JoinLines(lines) ==
    IF lines = <<>> THEN <<>>
    ELSE IF Len(lines) = 1 THEN Head(lines)
    ELSE Head(lines) \o <<"\n">> \o JoinLines(Tail(lines))

\* '... (output truncated) ...'
TruncationNote ==
    <<".", ".", ".", " ", "(", "o", "u", "t", "p", "u", "t", " ",
      "t", "r", "u", "n", "c", "a", "t", "e", "d", ")", " ", ".", ".", ".">>

\* lines 589-597: the cut by lines
CutLines(text, m_lines) ==
    LET lines == SplitLines(text) IN
    IF Len(lines) > m_lines
    THEN JoinLines(PyHead(lines, m_lines \div 2)
                   \o << <<>>, TruncationNote, <<>> >>
                   \o PyTail(lines, HalfUp(m_lines)))
    ELSE text

\* lines 600-602: the cut by characters
CutChars(text, m_chars) ==
    IF Len(text) > m_chars
    THEN PyHead(text, m_chars \div 2)
         \o <<"\n", "\n">> \o TruncationNote \o <<"\n", "\n">>
         \o PyTail(text, HalfUp(m_chars))
    ELSE text

\* _truncate_output(output): (truncated_output, was_truncated)
truncate_output(text, m_lines, m_chars) ==
    LET by_lines == CutLines(text, m_lines)
    IN  <<CutChars(by_lines, m_chars),
          Len(SplitLines(text)) > m_lines \/ Len(by_lines) > m_chars>>

\* the characters of the texts handed to _truncate_output
TextAlphabet == {"a", "\n"}

\* every text of at most MaxTextLen characters
Texts == UNION {[1..n -> TextAlphabet] : n \in 0..MaxTextLen}

\* the values of max_lines and of max_characters of the model
LineCeilings == 0..MaxLineCeiling

CharCeilings == {3, 8, MaxCharCeiling}

(***************************************************************************)
(* The output limiter on its own: every short text, applied twice          *)
(***************************************************************************)
InitLimiter ==
    /\ validate_all_commands = FALSE
    /\ shell_type = "bash"
    /\ current_os = "Linux"
    /\ command = <<>>
    /\ gate_ret = <<>>
    /\ ShellUnused
    /\ output \in Texts
    /\ max_lines \in LineCeilings
    /\ max_chars \in CharCeilings
    /\ truncated = <<>>
    /\ reason = <<>>
    /\ SelectionUnused

\* a call of _truncate_output, on output and then on what it returned
TruncateCall ==
    /\ Len(truncated) < 2
    /\ truncated' = Append(truncated,
           truncate_output(IF truncated = <<>> THEN output
                           ELSE truncated[Len(truncated)][1],
                           max_lines, max_chars))
    /\ UNCHANGED <<gateVars, shellVars, promptVars, selectVars, output, max_lines,
                   max_chars>>

NextLimiter == TruncateCall

SpecLimiter == InitLimiter /\ [][NextLimiter]_vars

(***************************************************************************)
(* The marker check of run_command on its own: every short text that       *)
(* _collect_output could hand back, in both dialects that echo the marker  *)
(* on one line                                                             *)
(***************************************************************************)
\* the characters of a text that _collect_output hands back; the marker of
\* the call is one of them
PartAlphabet == {Marker(0), " ", "\n", "0", "7", "-", "x", "\""}

\* every text of at most MaxPartLen symbols
Parts == UNION {[1..n -> PartAlphabet] : n \in 0..MaxPartLen}

InitParse ==
    /\ validate_all_commands = FALSE
    /\ shell_type \in {"bash", "powershell"}
    /\ current_os = "Linux"
    /\ command = <<>>
    /\ gate_ret = <<>>
    /\ environ = <<>>
    /\ installed = {BinBash, BinPwsh}
    /\ shell_path = IF shell_type = "bash" THEN BinBash ELSE BinPwsh
    /\ shell_executable = shell_path
    /\ process = 1
    /\ procs = <<NewProc>>
    /\ threads = <<NewThread("out", 1), NewThread("err", 1)>>
    /\ output_queue = <<>>
    /\ error_queue = <<>>
    /\ clock = 0
    /\ pc = "co_loop"
    /\ ss_ret = "idle"
    /\ wake = 0
    /\ rc = Marked([NoRc EXCEPT !.command = CmdA], 0)
    /\ \E text \in Parts : co = [NoCo EXCEPT !.stdout_lines = text]
    /\ result = <<>>
    /\ submits = 1
    /\ tool = NoTool
    /\ tool_ret = <<>>
    /\ current_dir = <<StartDir>>
    /\ events = <<>>
    /\ deaths = 0
    /\ ran = NoRan
    /\ timed_out = FALSE
    /\ calls = <<[command |-> CmdA, marker |-> Marker(0), pid |-> 1]>>
    /\ LimiterUnused
    /\ reason = <<>>

\* lines 231-264 on the text _collect_output returned: the marker is looked
\* for, the return code read, and run_command returns
ParseCall ==
    /\ pc = "co_loop"
    /\ rc' = Checked(rc, co)
    /\ result' = ReturnValue(rc')
    /\ pc' = "rc_done"
    /\ UNCHANGED <<gateVars, limiterVars, promptVars, selectVars, process, procs, threads,
                   output_queue, error_queue, clock, ss_ret, wake, co,
                   submits, tool, tool_ret, current_dir, events, deaths, ran,
                   timed_out, calls>>

NextParse == ParseCall

SpecParse == InitParse /\ [][NextParse]_vars

(***************************************************************************)
(* Properties of the gate                                                  *)
(***************************************************************************)
\* the entries of the allow-list in effect: the list of the platform's key and
\* the default list
AllowListEntries ==
    LET own == greenlist_commands(GreenlistKey(shell_type, current_os))
        dflt == greenlist_commands("default")
    IN  {own[k] : k \in 1..Len(own)} \cup {dflt[k] : k \in 1..Len(dflt)}

\* the leading whitespace-delimited token of the command
LeadingToken == IF split(command) = <<>> THEN <<>> ELSE split(command)[1]

\* the command begins with the entry: as its first token for a single-word
\* entry, as a literal prefix for a multi-word entry
CommandMatches(entry) ==
    IF Contains(entry, <<" ">>)
    THEN startswith(strip(command), entry)
    ELSE LeadingToken = entry

\* what follows the matched entry in the command
RemainderAfter(entry) == strip(DropFirst(strip(command), Len(entry)))

\* the fixed set of metacharacters the claims name
Metacharacters ==
    { <<";">>, <<"&", "&">>, <<"|", "|">>, <<"|">>, <<">">>, <<"<">>, <<"&">>,
      <<"$", "(">>, <<Backquote>> }

HasMetacharacter(text) == \E m \in Metacharacters : Contains(text, m)

\* flags the specification calls disallowed (force)
DisallowedFlags == { <<"-", "f">> }

HasDisallowedFlag(text) == \E fl \in DisallowedFlags : Contains(text, fl)

\* C1: a command that contains a metacharacter of the fixed set is never
\* auto-allowed, whatever it starts with.
C1_MetacharacterNeverAllowed ==
    (gate_ret # <<>> /\ HasMetacharacter(command)) => gate_ret = <<FALSE>>

\* the gate refused "a f;" on Linux, which starts with the multi-word entry
\* "a f", with the validation flag off
C1_Witness ==
    /\ gate_ret = <<FALSE>>
    /\ ~validate_all_commands
    /\ current_os = "Linux"
    /\ command = <<"a", " ", "f", ";">>
    /\ \E e \in AllowListEntries : Contains(e, <<" ">>) /\ CommandMatches(e)

\* C3: with validate_all_commands set the gate returns false for every
\* command.
C3_AlwaysConfirm ==
    (gate_ret # <<>> /\ validate_all_commands) => gate_ret = <<FALSE>>

\* the gate refused an allow-listed command without metacharacter because the
\* flag is set
C3_Witness ==
    /\ gate_ret = <<FALSE>>
    /\ validate_all_commands
    /\ LeadingToken \in AllowListEntries
    /\ ~HasMetacharacter(command)

\* C4: with the flag off, a command whose leading token is an allow-list entry
\* and which has no metacharacter is auto-allowed.
C4_AllowListedIsAllowed ==
    (/\ gate_ret # <<>>
     /\ ~validate_all_commands
     /\ LeadingToken \in AllowListEntries
     /\ ~HasMetacharacter(command)) => gate_ret = <<TRUE>>

\* the gate allowed a command with arguments whose leading token comes from
\* the default list while the platform has a list of its own
C4_Witness ==
    /\ gate_ret = <<TRUE>>
    /\ current_os = "Linux"
    /\ LeadingToken = <<"a">>
    /\ Len(split(command)) = 2
    /\ ~HasMetacharacter(command)

\* C5 as stated: a command that matches an entry and carries a disallowed flag
\* in the remainder is not auto-allowed.
C5_FlagRefused ==
    \A e \in AllowListEntries :
        (gate_ret # <<>> /\ CommandMatches(e) /\ HasDisallowedFlag(RemainderAfter(e)))
            => gate_ret = <<FALSE>>

\* C5 as amended: the remainder is only searched for the shell operators; a
\* command that matches an entry and carries a disallowed flag but no operator
\* in the remainder is auto-allowed when the validation flag is off.
C5_FlagNotConsulted ==
    \A e \in AllowListEntries :
        (/\ gate_ret # <<>>
         /\ ~validate_all_commands
         /\ CommandMatches(e)
         /\ HasDisallowedFlag(RemainderAfter(e))
         /\ ~HasMetacharacter(RemainderAfter(e))) => gate_ret = <<TRUE>>

\* the gate allowed "a -f"
C5_Witness ==
    /\ gate_ret = <<TRUE>>
    /\ command = <<"a", " ", "-", "f">>
    /\ \E e \in AllowListEntries :
           CommandMatches(e) /\ HasDisallowedFlag(RemainderAfter(e))


(***************************************************************************)
(* Properties of the tool dispatcher                                       *)
(***************************************************************************)
\* the answer recorded for the prompt is yes or y
SaidYes == tool.response = <<"y">> \/ tool.response = <<"y", "e", "s">>

\* in this step a text is added to the stdin of a shell
CommandWritten ==
    \E p \in 1..Len(procs) : Len(procs'[p].stdin) > Len(procs[p].stdin)

\* the tool call in progress was approved: a command by the gate or by the
\* user, a script by the user without the gate being asked
Approved ==
    \/ tool.name = "run_command" /\ (gate_ret = <<TRUE>> \/ SaidYes)
    \/ tool.name = "shell_script" /\ gate_ret = <<>> /\ SaidYes

\* C2: a text is written to the stdin of the shell only while a tool call is
\* in progress that was approved before: a run_command call that the gate
\* allowed or the user answered yes/y to, a shell_script call that the user
\* answered yes/y to.
C2_WrittenOnlyAfterApproval == [][CommandWritten => Approved]_vars

\* a line of a script lies in the stdin of the shell, after the user said yes
C2_Witness ==
    /\ tool.name = "shell_script"
    /\ SaidYes
    /\ pc = "co_loop"
    /\ procs[process].stdin # <<>>
    /\ CommandOf(procs[process].stdin[1]) = <<"false">>

(***************************************************************************)
(* Properties of run_command                                               *)
(***************************************************************************)
\* run_command has just returned and had found its marker
Completed == pc = "rc_done" /\ rc.marker_found

\* run_command has just returned and had not found its marker
SoftTimeout == pc = "rc_done" /\ ~rc.marker_found

\* what is returned for the command the shell ran: its stdout without the
\* trailing whitespace and its exit status
ResultIsOfCommand ==
    /\ ran.marker = rc.marker
    /\ result[1] = rstrip(ran.out)
    /\ result[3] = ran.code
    /\ rc.command = CmdFalse => (result[1] = <<>> /\ result[3] = 1)
    /\ rc.command = CmdEchoHello => (result[1] = <<"hello">> /\ result[3] = 0)

CompletedResults ==
    {<<rstrip(b.out), rstrip(b.err), b.code>> :
        b \in {v \in UNION {Behaviours(c, StartDir) :
                               c \in {CmdA, CmdFalse, CmdEchoHello}} :
                 ~v.chatty}}

\* C7: what run_command returns when it has not found its marker says so: it
\* is not a tuple that a completed command gives.
C7_TimeoutIsReported == SoftTimeout => result \notin CompletedResults

\* C8: _collect_output is bounded by the ceiling of run_command: while
\* run_command collects, no more than the ceiling and one grace window have
\* passed since its start.
C8_CollectionBounded ==
    pc = "co_loop" => (clock - rc.start_time) <= timeout + Grace

(***************************************************************************)
(* Properties of the respawn                                               *)
(***************************************************************************)
EventIs(i, ev, ok) ==
    /\ i \in 1..Len(events)
    /\ events[i].ev = ev
    /\ events[i].ok = ok

\* Popen has raised in the current call
SpawnFailed == \E i \in 1..Len(events) : EventIs(i, "spawn", FALSE)

\* C9: a run_command that lost one process is not ended by a broken pipe: it
\* raises only when Popen raised or a second process was lost; a write that
\* succeeds after a process was lost follows a spawn of the same call; and
\* what is returned is a tuple of two texts and an integer.
C9_RespawnBeforeWrite ==
    /\ (pc = "raised" /\ ~SpawnFailed) => deaths >= 2
    /\ \A i \in 1..Len(events) :
          (EventIs(i, "write", TRUE) /\ events[i].deaths >= 1)
              => \E j \in 1..(i - 1) : EventIs(j, "spawn", TRUE)
    /\ pc = "rc_done" => (Len(result) = 3 /\ result[3] \in 0..9)

\* the process died between the liveness probe and the write, and run_command
\* has returned a result after one respawn
C9_Witness ==
    /\ pc = "rc_done"
    /\ Len(events) = 3
    /\ EventIs(1, "write", FALSE)
    /\ EventIs(2, "spawn", TRUE)
    /\ EventIs(3, "write", TRUE)
    /\ rc.marker_found

\* C10: after a write that failed come at most one spawn and then at most one
\* write, of the same text; after a spawn that failed or a second write that
\* failed comes nothing, and run_command has raised.
C10_OneRespawnOneResend ==
    \A i \in 1..Len(events) :
        /\ EventIs(i, "write", TRUE) => i = Len(events)
        /\ EventIs(i, "spawn", FALSE) => (i = Len(events) /\ pc = "raised")
        /\ (EventIs(i, "write", FALSE)
              /\ \A k \in 1..(i - 1) : events[k].ev # "write")
           => /\ Len(events) <= i + 2
              /\ Len(events) >= i + 1 => events[i + 1].ev = "spawn"
              /\ Len(events) = i + 2 =>
                    /\ EventIs(i + 1, "spawn", TRUE)
                    /\ events[i + 2].ev = "write"
                    /\ events[i + 2].text = events[i].text
                    /\ ~events[i + 2].ok => pc = "raised"

\* the write failed, the shell was spawned again, the second write failed too
\* and run_command has raised
C10_Witness ==
    /\ pc = "raised"
    /\ Len(events) = 3
    /\ EventIs(1, "write", FALSE)
    /\ EventIs(2, "spawn", TRUE)
    /\ EventIs(3, "write", FALSE)
    /\ events[3].text = events[1].text


(***************************************************************************)
(* Properties of the markers                                               *)
(***************************************************************************)
\* the run_command calls made so far that have made their marker
WithMarker == {i \in 1..Len(calls) : calls[i].marker # ""}

\* C11: the markers of any two distinct run_command calls of a session
\* differ.
C11_MarkersDiffer ==
    \A i, j \in WithMarker : i # j => calls[i].marker # calls[j].marker

\* two calls have written their full_command, the second one to a shell
\* spawned in the call
C11_Witness ==
    /\ Len(calls) = 2
    /\ calls[1].pid = 1
    /\ calls[2].pid = 2
    /\ calls[1].marker # calls[2].marker

(***************************************************************************)
(* Properties of the readers                                               *)
(***************************************************************************)
\* C12: when every run_command so far has found its marker, what a
\* run_command returns is what its command wrote before the marker was
\* echoed, on stdout and on stderr: nothing of it is missing and nothing of
\* an earlier command is in it.
C12_NothingLostOrMisattributed ==
    (Completed /\ ~timed_out)
        => /\ ran.marker = rc.marker
           /\ result[1] = rstrip(ran.out)
           /\ result[2] = rstrip(ran.err)

\* the process a reader thread was started for: _start_shell starts two
\* threads for each process it spawns
OwnPid(i) == (i + 1) \div 2

\* the reader loop of thread i has not ended
LiveReader(i) == threads[i].st # "done"

\* C13: a reader loop that has not ended reads from the process it was
\* started for, and no two reader loops that have not ended read the same
\* stream of the same process.
C13_ReadersKeepToTheirProcess ==
    /\ \A i \in Tids : LiveReader(i) => threads[i].pid = OwnPid(i)
    /\ \A i, j \in Tids :
          (i # j /\ LiveReader(i) /\ LiveReader(j)
             /\ threads[i].stream = threads[j].stream)
              => threads[i].pid # threads[j].pid

(***************************************************************************)
(* Properties of the shell state                                           *)
(***************************************************************************)
\* an earlier run_command wrote "cd tmp" to process p
CdWrittenTo(p) ==
    \E j \in 1..(Len(calls) - 1) :
        calls[j].command = CmdCd /\ calls[j].pid = p

\* C14: when every run_command so far has found its marker or raised, the
\* pwd command returns "tmp" if an earlier call wrote "cd tmp" to the process
\* that ran it, and the start directory if that process was spawned since;
\* and a process that took an earlier command and still runs is the one the
\* pwd command was written to.
C14_StateKeptUntilRespawn ==
    (Completed /\ ~timed_out /\ rc.command = PwdCmd(shell_type))
        => /\ result[1] = IF CdWrittenTo(calls[Len(calls)].pid)
                          THEN <<"tmp">>
                          ELSE <<StartDir>>
           /\ \A j \in 1..(Len(calls) - 1) :
                 (calls[j].pid # 0 /\ procs[calls[j].pid].alive)
                     => calls[Len(calls)].pid = calls[j].pid


(***************************************************************************)
(* Properties of close                                                     *)
(***************************************************************************)
\* close() is at its write, its wait or its kill
Closing == pc \in {"cl_write", "cl_wait", "cl_kill"}

\* C15: when close() returns or raises the session holds no process; close()
\* writes, waits or kills only while the session holds one; and a close()
\* called on a session that holds none returns with nothing changed.
C15_CloseIdempotent ==
    [][ /\ (Closing /\ ~Closing') => process' = 0
        /\ Closing' => process' # 0
        /\ (pc = "idle" /\ process = 0 /\ pc' \in {"cl_write", "cl_none"})
             => /\ pc' = "cl_none"
                /\ UNCHANGED <<process, procs, threads, output_queue,
                               error_queue, clock, submits, calls, deaths,
                               current_dir>>
        /\ (pc = "cl_none" /\ pc' # "cl_none")
             => UNCHANGED <<process, procs, threads, output_queue,
                            error_queue, clock, submits, calls, deaths,
                            current_dir>>
      ]_vars

\* a close() has returned without a write, on a session an earlier close()
\* took the process from
C15_Witness ==
    /\ pc = "cl_none"
    /\ process = 0
    /\ Len(procs) >= 1

(***************************************************************************)
(* Properties of the output limiter                                        *)
(***************************************************************************)
\* the text the n-th call of _truncate_output returned
Truncated(n) == truncated[n][1]

\* C16: _truncate_output applied to what it returned, with the same
\* ceilings, returns it unchanged.
C16_TruncateIdempotent == Len(truncated) = 2 => Truncated(2) = Truncated(1)

\* C17: what _truncate_output returns has at most max_lines lines and at most
\* max_chars characters.
C17_CeilingsEnforced ==
    Len(truncated) >= 1
        => /\ Len(SplitLines(Truncated(1))) <= max_lines
           /\ Len(Truncated(1)) <= max_chars


\* the texts that denote an integer, written with the digits of PartAlphabet
Numerals ==
    {sign \o digits :
        sign \in {<<>>, <<"-">>, <<"+">>},
        digits \in UNION {[1..n -> PartAlphabet \cap DigitSyms] :
                             n \in 1..MaxPartLen}}

\* the marker of the call is in the text _collect_output returned, and the
\* field after it is missing or is not an integer
MalformedField ==
    /\ Contains(co.stdout_lines, <<rc.marker>>)
    /\ CodeStr(shell_type, co.stdout_lines, rc.marker) \notin Numerals

\* C18: when the marker is seen and the field after it is missing or is not
\* an integer, run_command returns with the marker found and return code 1.
C18_MalformedCodeIsOne ==
    (result # <<>> /\ MalformedField)
        => /\ rc.marker_found
           /\ result[3] = 1

\* C18: run_command has returned on a text where the marker is followed by
\* something that is not a number
C18_Witness ==
    /\ result # <<>>
    /\ MalformedField
    /\ CodeStr(shell_type, co.stdout_lines, rc.marker) # <<>>
    /\ result[3] = 1

\* the processes spawned so far that are still running
LiveProcs == {p \in DOMAIN procs : procs[p].alive}

\* C19: at every moment at most one process spawned by the session is
\* running.
C19_AtMostOneLive == Cardinality(LiveProcs) <= 1

\* _execute_tool returns, in this step, the result of a run_command or
\* shell_script call whose last command run_command has returned from
ToolReports ==
    /\ pc = "rc_done"
    /\ tool_ret = <<>>
    /\ tool_ret' # <<>>

\* the run_command call that gave the return code the tool reports on had
\* found its marker: the call that has just returned, or, after a command
\* that starts with "cd ", the one before the pwd probe
LastMarkerFound == IF tool.follow THEN tool.found ELSE rc.marker_found

\* C20: _execute_tool reports success only when the marker of the (last)
\* command was found and its return code was 0.
C20_SuccessOnlyWithMarker ==
    [][(ToolReports /\ tool_ret'[1].success) => LastMarkerFound]_vars

(***************************************************************************)
(* Properties of the marker after a soft timeout                           *)
(***************************************************************************)
\* the marker of another call is in the stdout run_command has returned
StaleMarkerRead ==
    \E i \in 1..Len(result[1]) :
        result[1][i] \in MarkerSyms /\ result[1][i] # rc.marker

\* C21: a run_command that found its marker was ended by the echo of its own
\* command: the shell has run that command to its end, and the return code is
\* the exit status of that command, also when the marker of an earlier
\* command that timed out was echoed late.
C21_EndedByOwnMarker ==
    Completed => /\ ran.marker = rc.marker
                 /\ ran.done
                 /\ result[3] = ran.code

\* C21: the second run_command has completed after the first timed out, and
\* the late marker of the first is in what it read
C21_Witness ==
    /\ Completed
    /\ timed_out
    /\ StaleMarkerRead
    /\ ran.marker = rc.marker

(***************************************************************************)
(* Properties of a declined call                                           *)
(***************************************************************************)
\* in this step the user, asked "Why not?" after an answer other than yes
\* or y, gives the reason, and _execute_tool goes on from the prompt
Declined == pc = "et_prompt" /\ reason' # <<>>

\* C22: when the user declines, nothing is written to the shell, current_dir
\* and the session (its process, what the processes hold, the calls made)
\* stay as they are, and _execute_tool returns, without raising, a result
\* with success False whose error text ends with the reason given.
C22_DeclineChangesNothing ==
    [][Declined =>
          /\ ~CommandWritten
          /\ UNCHANGED <<current_dir, process, procs, submits, calls>>
          /\ pc' = "idle"
          /\ tool_ret' # <<>>
          /\ ~tool_ret'[1].success
          /\ Len(tool_ret'[1].error) >= 1
          /\ Tail(tool_ret'[1].error) = reason'[1]]_vars

\* C22: a call was declined with a reason on a session that had run a
\* command before
C22_Witness ==
    /\ pc = "idle"
    /\ reason = << <<"r">> >>
    /\ tool_ret # <<>>
    /\ ~tool_ret[1].success
    /\ submits >= 1

(***************************************************************************)
(* Properties of the queues at the write                                   *)
(***************************************************************************)
\* in this step run_command writes full_command to the stdin of the shell
CommandSent == pc \in {"rc_write", "rc_rewrite"} /\ pc' = "co_loop"

\* C23: when run_command writes its command, nothing that was queued before
\* is left in the queues for _collect_output to return.
C23_QueuesEmptyAtWrite ==
    [][CommandSent => (output_queue = <<>> /\ error_queue = <<>>)]_vars

(***************************************************************************)
(* Properties of the cut by lines                                          *)
(***************************************************************************)
\* the lines of the text handed to _truncate_output
InputLines == SplitLines(output)

\* head lines, the note between two empty lines, tail lines
HeadNoteTail(head, tail) ==
    JoinLines(SubSeq(InputLines, 1, head)
              \o << <<>>, TruncationNote, <<>> >>
              \o SubSeq(InputLines, Len(InputLines) - tail + 1,
                        Len(InputLines)))

\* C24: a text of more than max_lines lines, short enough not to be cut by
\* characters, comes back as its first max_lines // 2 lines, the note, and
\* its last lines, max_lines lines of the text in all, for every max_lines
\* from 0 on.
C24_KeepsMaxLines ==
    (/\ Len(truncated) >= 1
     /\ max_chars = MaxCharCeiling
     /\ Len(InputLines) > max_lines)
        => Truncated(1) = HeadNoteTail(max_lines \div 2,
                                       max_lines - (max_lines \div 2))

(***************************************************************************)
(* Properties of close()                                                   *)
(***************************************************************************)
\* C25: close() returns to its caller on every path: it never ends with an
\* exception.
C25_CloseNeverRaises == pc # "close_raised"

(***************************************************************************)
(* Properties of the match of multi-word entries                           *)
(***************************************************************************)
\* the leading whitespace-delimited tokens of the command are the tokens of
\* the entry
LeadingTokensAre(entry) ==
    /\ Len(split(command)) >= Len(split(entry))
    /\ SubSeq(split(command), 1, Len(split(entry))) = split(entry)

\* C26: the gate allows a command only when its leading tokens are the
\* tokens of an entry of the allow-list in effect.
C26_AllowedOnlyOnTokens ==
    gate_ret = <<TRUE>> => \E e \in AllowListEntries : LeadingTokensAre(e)

(***************************************************************************)
(* Properties of the was_truncated flag                                    *)
(***************************************************************************)
\* the text handed to the n-th call of _truncate_output
InputOf(n) == IF n = 1 THEN output ELSE Truncated(n - 1)

\* the n-th call of _truncate_output returned was_truncated = True
Flagged(n) == truncated[n][2]

\* C27: a text within both ceilings comes back unchanged and not flagged, and
\* was_truncated is True exactly when the text returned is not the text
\* handed in.
C27_FlagMeansChanged ==
    \A n \in 1..Len(truncated) :
        /\ (/\ Len(SplitLines(InputOf(n))) <= max_lines
            /\ Len(InputOf(n)) <= max_chars)
               => (Truncated(n) = InputOf(n) /\ ~Flagged(n))
        /\ Flagged(n) <=> (Truncated(n) # InputOf(n))

(***************************************************************************)
(* Properties of the shell_script tool                                     *)
(***************************************************************************)
\* the lines that are commands: stripped, not empty, not a comment
CommandsOf(lines) ==
    SelectSeq([i \in 1..Len(lines) |-> strip(lines[i])],
              LAMBDA l : l # <<>> /\ l[1] # "#")

\* a script is being run: the user has said yes and a line was handed to
\* run_command
ScriptRunning == tool.name = "shell_script" /\ pc \notin {"idle", "et_prompt"}

\* the commands of the script handed to run_command so far
ScriptSent ==
    LET all == CommandsOf(SplitLines(strip(command)))
    IN  SubSeq(all, 1, Len(all) - Len(CommandsOf(tool.lines)))

\* the last run_command calls are the commands of the script so far, in the
\* order of the script
SentInOrder ==
    /\ ScriptSent # <<>>
    /\ Len(calls) >= Len(ScriptSent)
    /\ \A i \in 1..Len(ScriptSent) :
          calls[Len(calls) - Len(ScriptSent) + i].command = ScriptSent[i]

\* in this step run_command is called
CallStarts == Len(calls') > Len(calls)

\* in this step _execute_tool returns the result of a script
ScriptReturns ==
    /\ tool.name = "shell_script"
    /\ pc = "rc_done"
    /\ tool_ret' # <<>>

\* C28: the lines of an approved script that are not empty and not comments
\* go to run_command one by one in the order of the script, and no other
\* line does; a run_command is called only when none is in progress;
\* a line that fails is followed by the next; and the success reported is
\* that the last line run returned code 0.
C28_ScriptLineByLine ==
    /\ [](ScriptRunning => SentInOrder)
    /\ [][CallStarts => pc \in {"idle", "et_prompt", "rc_done"}]_vars
    /\ [][ScriptReturns =>
            /\ CommandsOf(tool.lines) = <<>>
            /\ tool_ret'[1].success = (result[3] = 0)]_vars

\* C28: a script has returned success after its first command failed and its
\* second was run
C28_Witness ==
    /\ pc = "idle"
    /\ tool_ret # <<>>
    /\ tool_ret[1].success
    /\ ~timed_out
    /\ Len(calls) = 2
    /\ calls[1].command = CmdFalse
    /\ calls[2].command = CmdA

(***************************************************************************)
(* Properties of the dialect                                               *)
(***************************************************************************)
\* the exit-status variable of a dialect
StatusVariable(sh_type) ==
    CASE sh_type = "cmd" -> "%ERRORLEVEL%"
      [] sh_type = "powershell" -> "$LASTEXITCODE"
      [] OTHER -> "$?"

StatusVariables == {"%ERRORLEVEL%", "$LASTEXITCODE", "$?"}

\* the text is the command followed by a suffix that echoes the marker and
\* the exit-status variable of the dialect, and ends with a line break
WellFormedWrite(text, cmd, mk, sh_type) ==
    LET suffix == DropFirst(text, Len(cmd)) IN
    /\ startswith(text, cmd)
    /\ text[Len(text)] = "\n"
    /\ Contains(suffix, <<"echo", " ">>)
    /\ IndexOf(suffix, "echo") < IndexOf(suffix, mk)
    /\ Contains(suffix, <<StatusVariable(sh_type)>>)
    /\ \A v \in StatusVariables \ {StatusVariable(sh_type)} :
          ~Contains(suffix, <<v>>)

\* the process was started with the interactive flag
Interactive(p) == Len(procs[p].argv) = 2 /\ procs[p].argv[2] = <<"-", "i">>

\* every write of the call in progress is well formed, and every process
\* spawned so far runs the executable chosen at construction, with the
\* interactive flag exactly when the dialect is neither cmd nor powershell
DialectKept ==
    /\ \A i \in 1..Len(events) :
          EventIs(i, "write", TRUE)
              => WellFormedWrite(events[i].text, rc.command, rc.marker,
                                 shell_type)
    /\ \A p \in DOMAIN procs :
          /\ procs[p].argv[1] = shell_executable
          /\ Interactive(p) <=> shell_type \notin {"cmd", "powershell"}

\* C29: what run_command writes is the command, the suffix of the dialect
\* chosen at construction with the echo of the marker and of that dialect's
\* exit-status variable, and a line break; the dialect and the executable do
\* not change after construction, and every process, respawned ones too, is
\* started with the interactive flag exactly for a posix dialect.
C29_DialectSuffixKept ==
    /\ []DialectKept
    /\ [][pc # "new" => UNCHANGED <<shell_type, shell_executable>>]_vars

\* C29: on Windows with powershell a command was written to a respawned
\* process that was started without the interactive flag
C29_Witness ==
    /\ current_os = "Windows"
    /\ shell_type = "powershell"
    /\ Len(procs) = 2
    /\ ~Interactive(2)
    /\ pc = "co_loop"
    /\ \E i \in 1..Len(events) : EventIs(i, "write", TRUE)
    /\ procs[2].stdin # <<>>

(***************************************************************************)
(* Properties of the choice of the executable                              *)
(***************************************************************************)
\* the choices in the order of the claim: the argument if given, the shell
\* the environment names (SHELL, on Windows COMSPEC), the platform default
Choices ==
    LET name == IF current_os = "Windows" THEN "COMSPEC" ELSE "SHELL"
    IN  (IF shell_path # <<>> THEN <<shell_path>> ELSE <<>>)
        \o (IF name \in DOMAIN environ THEN <<environ[name]>> ELSE <<>>)
        \o (IF current_os = "Windows"
            THEN <<PowershellExe, CmdExe>>
            ELSE <<BinBash>>)

\* the first choice that can be run
FirstPresent ==
    Choices[CHOOSE i \in 1..Len(Choices) :
                /\ Choices[i] \in installed
                /\ \A j \in 1..(i - 1) : Choices[j] \notin installed]

\* C30: once PersistentShell is constructed, the executable is the first of
\* the argument, the environment's shell and the platform default that can
\* be run, and the dialect is the one its name gives.
C30_FirstPresentChosen ==
    (pc # "new" /\ \E i \in 1..Len(Choices) : Choices[i] \in installed)
        => /\ shell_executable = FirstPresent
           /\ shell_type = ShellTypeOf(basename(shell_executable))
=============================================================================
